---- MODULE Spec2Model ----
(***************************************************************************)
(* A model of fixbibtex.py: fix_bibtex (the dispatch loop, the pool of     *)
(* find_crossref workers, the gather, the sequential merge loop with its   *)
(* DOI fallback) and the merger update_entry_from_crossref.                *)
(*                                                                         *)
(* Python strings are sequences of character codes (ASCII), so that        *)
(* lower(), replace(), concatenation, str() of an integer and the          *)
(* substring test are computed and not assumed.  A Python dict is a        *)
(* function whose DOMAIN is its key set.  An optional value (None or x)    *)
(* is the sequence <<>> or <<x>>.                                          *)
(***************************************************************************)
EXTENDS Integers, Sequences, FiniteSets, TLC

(***************************************************************************)
(* Bounds of the model.                                                    *)
(***************************************************************************)
\* number of entries of the bibliography file
NumEntries == 2

\* fix_bibtex calls per behaviour (SpecRerun runs the tool on its own output)
MaxRuns == 2

(***************************************************************************)
(* Program constants.                                                      *)
(***************************************************************************)
\* MAX_POOL_WORKERS = int(os.environ.get('FIXBIBTEX_WORKERS', '5'))
MAX_POOL_WORKERS == 5

\* ref.get('score', 100)
DefaultRelevance == 100

\* '-' in str(ref['page']).replace('-', '--')
Hyphen == 45

(***************************************************************************)
(* Strings.                                                                *)
(***************************************************************************)
\* str.lower() on ASCII
Lower(s) == [i \in 1..Len(s) |-> IF s[i] >= 65 /\ s[i] <= 90 THEN s[i] + 32 ELSE s[i]]

\* str(n) for an integer n >= 0
RECURSIVE IntToStr(_)
IntToStr(n) == IF n < 10 THEN <<48 + n>> ELSE IntToStr(n \div 10) \o <<48 + (n % 10)>>

\* s.replace('-', '--')
RECURSIVE ReplaceHyphen(_)
ReplaceHyphen(s) ==
    IF s = <<>> THEN <<>>
    ELSE (IF Head(s) = Hyphen THEN <<Hyphen, Hyphen>> ELSE <<Head(s)>>) \o ReplaceHyphen(Tail(s))

\* sub in s
Contains(s, sub) ==
    \E i \in 1..(Len(s) - Len(sub) + 1) : SubSeq(s, i, i + Len(sub) - 1) = sub

\* 'rxiv.org'
RxivOrg == <<114, 120, 105, 118, 46, 111, 114, 103>>

(***************************************************************************)
(* difflib.SequenceMatcher(None, a, b).ratio(): Ratcliff/Obershelp.  The   *)
(* longest matching block (earliest in a, then earliest in b, among the    *)
(* longest) is found, then the pieces left and right of it recursively;    *)
(* the ratio is 2*M/T, kept as the fraction <<2*M, T>> (1.0 when T = 0).   *)
(***************************************************************************)
RECURSIVE RunLen(_, _, _, _, _, _)
RunLen(a, b, i, j, ahi, bhi) ==
    IF i > ahi \/ j > bhi THEN 0
    ELSE IF a[i] # b[j] THEN 0
    ELSE 1 + RunLen(a, b, i + 1, j + 1, ahi, bhi)

FindLongestMatch(a, b, alo, ahi, blo, bhi) ==
    LET starts == (alo..ahi) \X (blo..bhi)
        size(p) == RunLen(a, b, p[1], p[2], ahi, bhi)
        Better(p, q) == \/ size(p) > size(q)
                        \/ size(p) = size(q) /\ p[1] < q[1]
                        \/ size(p) = size(q) /\ p[1] = q[1] /\ p[2] <= q[2]
        best == CHOOSE p \in starts : \A q \in starts : Better(p, q)
    IN  [i |-> best[1], j |-> best[2], size |-> size(best)]

RECURSIVE MatchCount(_, _, _, _, _, _)
MatchCount(a, b, alo, ahi, blo, bhi) ==
    IF alo > ahi \/ blo > bhi THEN 0
    ELSE LET m == FindLongestMatch(a, b, alo, ahi, blo, bhi)
         IN  IF m.size = 0 THEN 0
             ELSE m.size
                  + MatchCount(a, b, alo, m.i - 1, blo, m.j - 1)
                  + MatchCount(a, b, m.i + m.size, ahi, m.j + m.size, bhi)

Ratio(a, b) ==
    IF Len(a) + Len(b) = 0 THEN <<1, 1>>
    ELSE <<2 * MatchCount(a, b, 1, Len(a), 1, Len(b)), Len(a) + Len(b)>>

\* def similar(a, b)
similar(a, b) == Ratio(Lower(a), Lower(b))

\* x < 0.75 for a fraction x
BelowThreshold(x) == 4 * x[1] < 3 * x[2]

(***************************************************************************)
(* Python values.                                                          *)
(***************************************************************************)
\* None, and an attribute that is not set
None == <<>>

Some(x) == <<x>>

\* d[k] = v on a dict
Put(d, k, v) == [x \in (DOMAIN d) \cup {k} |-> IF x = k THEN v ELSE d[x]]

\* d.get(k, default)
Get(d, k, default) == IF k \in DOMAIN d THEN d[k] ELSE default

\* pybtex Person(string): "Last, First" is split at the comma, a single word
\* is a last name
Person(s) ==
    IF \E i \in 1..(Len(s) - 1) : s[i] = 44 /\ s[i + 1] = 32
    THEN LET i == CHOOSE i \in 1..(Len(s) - 1) : s[i] = 44 /\ s[i + 1] = 32
         IN  [last |-> SubSeq(s, 1, i - 1), first |-> SubSeq(s, i + 2, Len(s))]
    ELSE [last |-> s, first |-> <<>>]

(***************************************************************************)
(* The inputs: the entries a bibliography file may hold, the records the   *)
(* search may return and the records the identifier lookup may return.     *)
(***************************************************************************)
\* "Abcd"
TitleOrig == <<65, 98, 99, 100>>

\* "abcde": similar(TitleOrig, .) = 8/9
TitleNear == <<97, 98, 99, 100, 101>>

\* "bcdef": similar(TitleOrig, .) = 6/9, similar(TitleNear, .) = 8/10
TitleFar == <<98, 99, 100, 101, 102>>

\* "wxyz": similar(., .) = 0 with each of the others
TitleOther == <<119, 120, 121, 122>>

\* "10.1/a", "10.1/b"
DoiA == <<49, 48, 46, 49, 47, 97>>

DoiB == <<49, 48, 46, 49, 47, 98>>

\* an article with one author and no DOI
EntryPlain ==
    [type |-> "article",
     fields |-> [title |-> TitleOrig, journal |-> <<74>>],
     persons |-> [author |-> <<Person(<<88>>)>>]]

\* an article with a DOI, a year, two authors and an editor
EntryDoi ==
    [type |-> "article",
     fields |-> [title |-> TitleOrig, doi |-> DoiA, year |-> <<50, 48, 49, 55>>,
                 url |-> <<120, 46, 111, 114, 103>>],
     persons |-> [author |-> <<Person(<<88>>), Person(<<89, 44, 32, 90>>)>>,
                  editor |-> <<Person(<<69>>)>>]]

\* a book
EntryBook ==
    [type |-> "book",
     fields |-> [title |-> TitleOrig, doi |-> DoiA],
     persons |-> [author |-> <<Person(<<88>>)>>]]

\* an article whose url is on a preprint server: "a" + "rxiv.org" + "/1"
EntryRxiv ==
    [type |-> "article",
     fields |-> [title |-> TitleOrig, doi |-> DoiA, url |-> <<97>> \o RxivOrg \o <<47, 49>>],
     persons |-> [author |-> <<Person(<<88>>)>>]]

\* an article without a title field
EntryNoTitle ==
    [type |-> "article",
     fields |-> [journal |-> <<74>>],
     persons |-> [author |-> <<Person(<<88>>)>>]]

EntryKinds == {EntryPlain, EntryDoi, EntryBook, EntryRxiv, EntryNoTitle}

\* a full record with a near title, a page range, both dates and three
\* authors (family and given, family only, an organization)
RefNear ==
    ("container-title" :> <<(<<75>>)>>) @@
    ("issue" :> <<51>>) @@
    ("page" :> <<49, 50, 45, 49, 57>>) @@
    ("title" :> <<TitleNear>>) @@
    ("URL" :> <<117>>) @@
    ("volume" :> <<57>>) @@
    ("published-print" :> ("date-parts" :> <<(<<2020, 5>>)>>)) @@
    ("published-online" :> ("date-parts" :> <<(<<2019>>)>>)) @@
    ("DOI" :> DoiB) @@
    ("ISSN" :> <<(<<73>>)>>) @@
    ("author" :> <<("family" :> <<83>>) @@ ("given" :> <<74>>),
                   ("family" :> <<84>>),
                   ("name" :> <<79>>)>>) @@
    ("score" :> 50)

\* a record with a far title, an issue, an online date and two authors
RefFar ==
    ("issue" :> <<55>>) @@
    ("title" :> <<TitleFar>>) @@
    ("published-online" :> ("date-parts" :> <<(<<2018>>)>>)) @@
    ("author" :> <<("family" :> <<85>>), ("family" :> <<86>>) @@ ("given" :> <<87>>)>>)

\* a record without a title
RefNoTitle ==
    ("DOI" :> DoiB) @@
    ("volume" :> <<56>>)

\* a record whose title list is empty
RefEmptyTitle ==
    ("title" :> <<>>) @@
    ("volume" :> <<56>>)

\* what the identifier lookup may find: a near title, a page range, no
\* issue and an empty author list
FbNear ==
    ("title" :> <<TitleNear>>) @@
    ("page" :> <<53, 45, 54>>) @@
    ("DOI" :> DoiA) @@
    ("author" :> <<>>) @@
    ("score" :> 1)

\* another far title, three authors, no DOI
FbFar ==
    ("title" :> <<TitleOther>>) @@
    ("volume" :> <<52>>) @@
    ("author" :> <<("family" :> <<83>>), ("family" :> <<84>>), ("name" :> <<79>>)>>)

\* cr.works(query=..., filter=...): it raises, or returns a message with a
\* ranked item list
SearchResponses ==
    {[raised |-> TRUE, items |-> <<>>], [raised |-> FALSE, items |-> <<>>]}
    \cup {[raised |-> FALSE, items |-> <<c>>] : c \in {RefNear, RefFar, RefNoTitle, RefEmptyTitle}}

\* cr.works(ids=doi): it raises, or returns a status and a message
DoiResponses ==
    {[raised |-> TRUE, status |-> "", message |-> <<>>],
     [raised |-> FALSE, status |-> "failed", message |-> <<>>]}
    \cup {[raised |-> FALSE, status |-> "ok", message |-> c] : c \in {FbNear, FbFar}}

(***************************************************************************)
(* update_entry_from_crossref.  An Entry object is a record of its         *)
(* attributes; its fields attribute is a reference (fref) to a dict of     *)
(* the heap dicts, because copy() copies the reference and not the dict.   *)
(***************************************************************************)
\* lines 185-205: the assignments to entry.fields, in order
MergeFields(ref, f) ==
    LET f1 == IF "container-title" \in DOMAIN ref
              THEN Put(f, "journal", ref["container-title"][1]) ELSE f
        f2 == IF "issue" \in DOMAIN ref THEN Put(f1, "number", ref["issue"]) ELSE f1
        f3 == IF "page" \in DOMAIN ref
              THEN Put(f2, "pages", ReplaceHyphen(ref["page"])) ELSE f2
        f4 == IF "title" \in DOMAIN ref /\ ref["title"] # <<>>
              THEN Put(f3, "title", ref["title"][1]) ELSE f3
        f5 == IF "URL" \in DOMAIN ref THEN Put(f4, "url", ref["URL"]) ELSE f4
        f6 == IF "volume" \in DOMAIN ref THEN Put(f5, "volume", ref["volume"]) ELSE f5
        f7 == IF "published-print" \in DOMAIN ref
              THEN Put(f6, "year", IntToStr(ref["published-print"]["date-parts"][1][1]))
              ELSE IF "published-online" \in DOMAIN ref
              THEN Put(f6, "year", IntToStr(ref["published-online"]["date-parts"][1][1]))
              ELSE f6
        f8 == IF "DOI" \in DOMAIN ref THEN Put(f7, "doi", ref["DOI"]) ELSE f7
        f9 == IF "ISSN" \in DOMAIN ref THEN Put(f8, "issn", ref["ISSN"][1]) ELSE f8
    IN  f9

\* lines 209-216: one candidate author as a Person
AuthorPerson(author) ==
    IF "family" \in DOMAIN author
    THEN Person(IF "given" \in DOMAIN author
                THEN author["family"] \o <<44, 32>> \o author["given"]
                ELSE author["family"])
    ELSE Person(author["name"])

\* the mutant of MergePersons: < for <=
MergePersonsStrict(ref, persons) ==
    IF "author" \in DOMAIN ref
    THEN LET built == [author |-> [i \in 1..Len(ref["author"]) |-> AuthorPerson(ref["author"][i])]]
         IN  IF Len(Get(persons, "author", <<>>)) < Len(built.author) THEN built ELSE persons
    ELSE persons

\* lines 206-219: the value of entry.persons when the function returns
MergePersons(ref, persons) ==
    IF "author" \in DOMAIN ref
    THEN LET built == [author |-> [i \in 1..Len(ref["author"]) |-> AuthorPerson(ref["author"][i])]]
         IN  IF Len(Get(persons, "author", <<>>)) <= Len(built.author) THEN built ELSE persons
    ELSE persons

\* copy(entry): a new Entry whose attributes are those of entry; the fields
\* attribute of the copy is the same dict (the same fref)
Copy(entry) == entry

\* update_entry_from_crossref(ref, entry) on the heap h of field dicts: the
\* Entry returned, and the heap when it returns
update_entry_from_crossref(ref, entry, h) ==
    LET e == Copy(entry)
        f == h[e.fref]
        hasTitle == "title" \in DOMAIN ref /\ ref["title"] # <<>>
    IN  [entry |-> [type |-> e.type,
                    fref |-> e.fref,
                    persons |-> MergePersons(ref, e.persons),
                    similarity |-> IF hasTitle THEN Some(similar(f["title"], ref["title"][1]))
                                   ELSE e.similarity,
                    relevance |-> Some(Get(ref, "score", DefaultRelevance))],
         heap |-> [h EXCEPT ![e.fref] = MergeFields(ref, f)]]

(***************************************************************************)
(* find_crossref and find_crossref_doi: what they return for a response.   *)
(***************************************************************************)
\* find_crossref, lines 161-167: (None, None, None) when the search raised,
\* None (no return statement is reached) when the item list is empty, else
\* (key, entry, first)
find_crossref(key, entry, resp) ==
    IF resp.raised THEN [isNone |-> FALSE, key |-> None, entry |-> None, ref |-> None]
    ELSE IF resp.items # <<>>
    THEN [isNone |-> FALSE, key |-> Some(key), entry |-> Some(entry), ref |-> Some(resp.items[1])]
    ELSE [isNone |-> TRUE, key |-> None, entry |-> None, ref |-> None]

\* find_crossref_doi, lines 172-180
find_crossref_doi(doi, resp) ==
    IF doi = <<>> THEN None
    ELSE IF resp.raised THEN None
    ELSE IF resp.status = "ok" /\ DOMAIN resp.message # {} THEN Some(resp.message)
    ELSE None

(***************************************************************************)
(* The state.                                                              *)
(***************************************************************************)
VARIABLES
    file,              \* the bibliography file: key -> [type, fields, persons]
    bib,               \* bib.entries: key -> Entry object
    dicts,             \* the heap of field dicts: fref -> dict
    pc,                \* where fix_bibtex is
    pos,               \* the dispatch loop's position in bib.entries
    futures,           \* the futures list, with each worker's state
    non_article_keys,
    pbar,              \* the tqdm bar: n, total, closed
    results,           \* what gather returned
    idx,               \* the merge loop's position in results
    cur,               \* the merge loop's locals
    err,               \* the exception that ended fix_bibtex
    doiInFlight,       \* identifier lookups issued and not yet answered
    searchMemo,        \* what the search answered, by key
    doiMemo,           \* what the identifier lookup answered, by DOI
    det,               \* the remote answers the same question the same way
    run                \* how many times the tool has been started

vars == <<file, bib, dicts, pc, pos, futures, non_article_keys, pbar, results, idx,
          cur, err, doiInFlight, searchMemo, doiMemo, det, run>>

Keys == 1..NumEntries

\* parse_bibfile: one Entry object and one fields dict per key
Load(f) == [k \in DOMAIN f |-> [type |-> f[k].type, fref |-> k, persons |-> f[k].persons,
                                similarity |-> None, relevance |-> None]]

LoadDicts(f) == [k \in DOMAIN f |-> f[k].fields]

\* to_file: what is written of an Entry (type, fields, persons; not the
\* similarity and relevance attributes)
Written(entry, h) == [type |-> entry.type, fields |-> h[entry.fref], persons |-> entry.persons]

\* the collection as to_file would write it
Patched == [k \in DOMAIN bib |-> Written(bib[k], dicts)]

\* tqdm(leave=False)
NewBar == [n |-> 0, total |-> None, closed |-> FALSE]

Start(f, d) ==
    /\ file = f
    /\ bib = Load(f)
    /\ dicts = LoadDicts(f)
    /\ pc = "dispatch"
    /\ pos = 1
    /\ futures = <<>>
    /\ non_article_keys = <<>>
    /\ pbar = NewBar
    /\ results = <<>>
    /\ idx = 0
    /\ cur = <<>>
    /\ err = ""
    /\ doiInFlight = 0
    /\ searchMemo = <<>>
    /\ doiMemo = <<>>
    /\ det = d
    /\ run = 1

Init == \E f \in [Keys -> EntryKinds] : Start(f, FALSE)

InitRerun == \E f \in [Keys -> EntryKinds] : Start(f, TRUE)

(***************************************************************************)
(* fix_bibtex: the dispatch loop.                                          *)
(***************************************************************************)
\* the mutant of Eligible: the preprint test left out
EligibleTypeOnly(entry, h) == ~(entry.type # "article")

\* line 107, negated: the entry is sent to lookup
Eligible(entry, h) ==
    ~(entry.type # "article" \/ Contains(Get(h[entry.fref], "url", <<>>), RxivOrg))

\* lines 106-110: one iteration
Dispatch ==
    /\ pc = "dispatch"
    /\ pos <= NumEntries
    /\ IF Eligible(bib[pos], dicts)
       THEN /\ futures' = Append(futures, [key |-> pos, entry |-> bib[pos], state |-> "pending",
                                           local |-> 0, resp |-> None,
                                           result |-> [isNone |-> TRUE, key |-> None,
                                                       entry |-> None, ref |-> None]])
            /\ UNCHANGED non_article_keys
       ELSE /\ non_article_keys' = Append(non_article_keys, pos)
            /\ UNCHANGED futures
    /\ pos' = pos + 1
    /\ UNCHANGED <<file, bib, dicts, pc, pbar, results, idx, cur, err, doiInFlight,
                   searchMemo, doiMemo, det, run>>

\* line 111 and the call of gather
DispatchEnd ==
    /\ pc = "dispatch"
    /\ pos > NumEntries
    /\ pbar' = [pbar EXCEPT !.total = Some(Len(futures))]
    /\ pc' = "gather"
    /\ UNCHANGED <<file, bib, dicts, pos, futures, non_article_keys, results, idx, cur, err,
                   doiInFlight, searchMemo, doiMemo, det, run>>

(***************************************************************************)
(* find_crossref in a pool thread.  pbar.update() is n += 1 on the shared  *)
(* bar with no lock held: the read and the write are two steps.            *)
(***************************************************************************)
Running == {w \in 1..Len(futures) : futures[w].state = "updating"}

\* lines 148-160 (or 163): the thread takes the call; entry.fields['title']
\* raises KeyError outside the try; else the search answers or raises, and
\* pbar.update() reads n
WorkerCall(w) ==
    /\ futures[w].state = "pending"
    /\ Cardinality(Running) < MAX_POOL_WORKERS
    /\ IF "title" \notin DOMAIN dicts[futures[w].entry.fref]
       THEN /\ futures' = [futures EXCEPT ![w].state = "raised"]
            /\ UNCHANGED searchMemo
       ELSE \E resp \in SearchResponses :
              /\ det /\ futures[w].key \in DOMAIN searchMemo => resp = searchMemo[futures[w].key]
              /\ futures' = [futures EXCEPT ![w].state = "updating",
                                            ![w].local = pbar.n,
                                            ![w].resp = Some(resp)]
              /\ searchMemo' = Put(searchMemo, futures[w].key, resp)
    /\ UNCHANGED <<file, bib, dicts, pc, pos, non_article_keys, pbar, results, idx, cur, err,
                   doiInFlight, doiMemo, det, run>>

\* pbar.update() writes n, then lines 164-167: the return
WorkerFinish(w) ==
    /\ futures[w].state = "updating"
    /\ pbar' = [pbar EXCEPT !.n = futures[w].local + 1]
    /\ futures' = [futures EXCEPT ![w].state = "done",
                                  ![w].result = find_crossref(futures[w].key, futures[w].entry,
                                                              futures[w].resp[1])]
    /\ UNCHANGED <<file, bib, dicts, pc, pos, non_article_keys, results, idx, cur, err,
                   doiInFlight, searchMemo, doiMemo, det, run>>

(***************************************************************************)
(* fix_bibtex: the await of asyncio.gather on the futures.                 *)
(***************************************************************************)
\* the mutant of GatherReady: the first completed future resumes the loop
GatherReadyAny(fs) == \E w \in 1..Len(fs) : fs[w].state = "done"

\* gather returns when every future has a result
GatherReady(fs) == \A w \in 1..Len(fs) : fs[w].state = "done"

\* gather raises the first exception a future raised
GatherRaise ==
    /\ pc = "gather"
    /\ \E w \in 1..Len(futures) : futures[w].state = "raised"
    /\ pc' = "crashed"
    /\ err' = "KeyError"
    /\ UNCHANGED <<file, bib, dicts, pos, futures, non_article_keys, pbar, results, idx, cur,
                   doiInFlight, searchMemo, doiMemo, det, run>>

GatherReturn ==
    /\ pc = "gather"
    /\ \A w \in 1..Len(futures) : futures[w].state # "raised"
    /\ GatherReady(futures)
    /\ results' = [w \in 1..Len(futures) |-> futures[w].result]
    /\ idx' = 1
    /\ pc' = "merge"
    /\ UNCHANGED <<file, bib, dicts, pos, futures, non_article_keys, pbar, cur, err,
                   doiInFlight, searchMemo, doiMemo, det, run>>

(***************************************************************************)
(* fix_bibtex: the merge loop, lines 112-138.                              *)
(***************************************************************************)
\* lines 113-117: the result is passed over
Skipped(result) == result.isNone \/ result.ref = None

\* the mutant of AfterSkip: break for continue
AfterSkipBreak(i, n) == n + 1

\* continue: the loop goes on with the next result
AfterSkip(i, n) == i + 1

\* the mutant of CommitKey: the entry is stored under another key
CommitKeyOther(c) == 0

\* line 138: the key bib.entries is assigned under
CommitKey(c) == c.key

\* getattr(new_entry, 'similarity', 0)
SimilarityOr0(entry) == IF entry.similarity = None THEN <<0, 1>> ELSE entry.similarity[1]

LoopSkip ==
    /\ pc = "merge"
    /\ idx <= Len(results)
    /\ Skipped(results[idx])
    /\ idx' = AfterSkip(idx, Len(results))
    /\ UNCHANGED <<file, bib, dicts, pc, pos, futures, non_article_keys, pbar, results, cur,
                   err, doiInFlight, searchMemo, doiMemo, det, run>>

\* lines 115-120: the locals, and the first call of the merger
LoopUpdate ==
    /\ pc = "merge"
    /\ idx <= Len(results)
    /\ ~Skipped(results[idx])
    /\ LET key == results[idx].key[1]
           entry == results[idx].entry[1]
           ref == results[idx].ref[1]
           u == update_entry_from_crossref(ref, entry, dicts)
       IN  /\ cur' = [key |-> key, entry |-> entry, ref |-> ref,
                      doi_in_bibtex |-> Get(dicts[entry.fref], "doi", <<>>),
                      title_in_bibtex |-> Get(dicts[entry.fref], "title", <<>>),
                      new_entry |-> u.entry,
                      fb_ref |-> None,
                      new_entry_fb |-> None]
           /\ dicts' = u.heap
    /\ pc' = "updated"
    /\ UNCHANGED <<file, bib, pos, futures, non_article_keys, pbar, results, idx, err,
                   doiInFlight, searchMemo, doiMemo, det, run>>

\* lines 121-125 and 136-137: the test of the similarity; the warning reads
\* new_entry.similarity, an AttributeError when the merger did not set it;
\* with a DOI the identifier lookup is issued
Evaluate ==
    /\ pc = "updated"
    /\ IF ~BelowThreshold(SimilarityOr0(cur.new_entry))
       THEN pc' = "commit" /\ UNCHANGED <<err, doiInFlight>>
       ELSE IF cur.new_entry.similarity = None
       THEN pc' = "crashed" /\ err' = "AttributeError" /\ UNCHANGED doiInFlight
       ELSE IF cur.doi_in_bibtex # <<>>
       THEN pc' = "fallback" /\ doiInFlight' = doiInFlight + 1 /\ UNCHANGED err
       ELSE pc' = "commit" /\ UNCHANGED <<err, doiInFlight>>
    /\ UNCHANGED <<file, bib, dicts, pos, futures, non_article_keys, pbar, results, idx, cur,
                   searchMemo, doiMemo, det, run>>

\* lines 125-135: the identifier lookup answers; a candidate is merged onto
\* entry again and replaces new_entry when its title is similar enough
FallbackReturn ==
    /\ pc = "fallback"
    /\ \E resp \in DoiResponses :
         /\ det /\ cur.doi_in_bibtex \in DOMAIN doiMemo => resp = doiMemo[cur.doi_in_bibtex]
         /\ doiMemo' = Put(doiMemo, cur.doi_in_bibtex, resp)
         /\ LET fb_ref == find_crossref_doi(cur.doi_in_bibtex, resp)
            IN  IF fb_ref # None
                THEN LET u == update_entry_from_crossref(fb_ref[1], cur.entry, dicts)
                         similarity == similar(cur.title_in_bibtex, u.heap[u.entry.fref]["title"])
                     IN  /\ dicts' = u.heap
                         /\ cur' = [cur EXCEPT !.fb_ref = fb_ref,
                                               !.new_entry_fb = Some(u.entry),
                                               !.new_entry = IF BelowThreshold(similarity)
                                                             THEN @ ELSE u.entry]
                ELSE UNCHANGED <<dicts, cur>>
    /\ doiInFlight' = doiInFlight - 1
    /\ pc' = "commit"
    /\ UNCHANGED <<file, bib, pos, futures, non_article_keys, pbar, results, idx, err,
                   searchMemo, det, run>>

\* line 138
Commit ==
    /\ pc = "commit"
    /\ bib' = Put(bib, CommitKey(cur), cur.new_entry)
    /\ idx' = idx + 1
    /\ cur' = <<>>
    /\ pc' = "merge"
    /\ UNCHANGED <<file, dicts, pos, futures, non_article_keys, pbar, results, err,
                   doiInFlight, searchMemo, doiMemo, det, run>>

\* lines 139-144: the loop is over; the bar is closed and bib returned
LoopEnd ==
    /\ pc = "merge"
    /\ idx > Len(results)
    /\ pbar' = [pbar EXCEPT !.closed = TRUE]
    /\ pc' = "done"
    /\ UNCHANGED <<file, bib, dicts, pos, futures, non_article_keys, results, idx, cur, err,
                   doiInFlight, searchMemo, doiMemo, det, run>>

(***************************************************************************)
(* main: the patched collection is written; the tool is then run on the    *)
(* file it wrote, the remote answering as before.                          *)
(***************************************************************************)
Rerun ==
    /\ pc = "done"
    /\ run < MaxRuns
    /\ file' = Patched
    /\ bib' = Load(Patched)
    /\ dicts' = LoadDicts(Patched)
    /\ pc' = "dispatch"
    /\ pos' = 1
    /\ futures' = <<>>
    /\ non_article_keys' = <<>>
    /\ pbar' = NewBar
    /\ results' = <<>>
    /\ idx' = 0
    /\ cur' = <<>>
    /\ run' = run + 1
    /\ UNCHANGED <<err, doiInFlight, searchMemo, doiMemo, det>>

Workers == \E w \in 1..Len(futures) : WorkerCall(w) \/ WorkerFinish(w)

Next ==
    \/ Dispatch
    \/ DispatchEnd
    \/ Workers
    \/ GatherRaise
    \/ GatherReturn
    \/ LoopSkip
    \/ LoopUpdate
    \/ Evaluate
    \/ FallbackReturn
    \/ Commit
    \/ LoopEnd

Spec == Init /\ [][Next]_vars

NextRerun == Next \/ Rerun

SpecRerun == InitRerun /\ [][NextRerun]_vars

(***************************************************************************)
(* What the claims read.                                                   *)
(***************************************************************************)
\* the loaded entry is not sent to lookup: wrong type, or a preprint url
NotSentToLookup(e) ==
    e.type # "article" \/ Contains(Get(e.fields, "url", <<>>), RxivOrg)

\* a lookup was dispatched for key k
Dispatched(k) == \E w \in 1..Len(futures) : futures[w].key = k

\* the search for key k raised, or returned no item
LookupFailed(k) ==
    \E w \in 1..Len(futures) :
        /\ futures[w].key = k
        /\ futures[w].resp # None
        /\ futures[w].resp[1].raised \/ futures[w].resp[1].items = <<>>

\* the merger has been applied to the entry stored under k and the result
\* stored: only the merger sets the relevance attribute
Merged(k) == k \in DOMAIN bib /\ bib[k].relevance # None

\* every search lookup that was dispatched has returned
BatchDone == \A w \in 1..Len(futures) : futures[w].state = "done"

\* the merge of candidate c onto the loaded entry e, on values
MergeOnto(c, e) ==
    [type |-> e.type, fields |-> MergeFields(c, e.fields), persons |-> MergePersons(c, e.persons)]

\* the author list of a persons mapping
Authors(persons) == Get(persons, "author", <<>>)

(***************************************************************************)
(* C1: in every reachable state of fix_bibtex the key set of the patched   *)
(* collection is the key set of the collection as loaded: no entry is      *)
(* added or deleted, an entry is replaced only under its own key.          *)
(***************************************************************************)
C1_KeySetPreserved == DOMAIN bib = DOMAIN file

\* the run has returned and has replaced an entry
C1_Witness == pc = "done" /\ \E k \in DOMAIN bib : Patched[k] # file[k]

(***************************************************************************)
(* C2: for an entry that is not sent to lookup (its type is not article,   *)
(* or its url contains rxiv.org) no lookup is ever dispatched, and its     *)
(* entry in the patched collection equals the entry as loaded, in every    *)
(* state and so at the end of the run, whatever happens to the others.     *)
(***************************************************************************)
C2_SkippedUntouched ==
    \A k \in DOMAIN file :
        NotSentToLookup(file[k]) =>
            /\ ~Dispatched(k)
            /\ k \in DOMAIN bib
            /\ Patched[k] = file[k]

\* the run has returned with a preprint article passed through and another
\* entry replaced
C2_Witness ==
    /\ pc = "done"
    /\ \E k \in DOMAIN file : file[k].type = "article" /\ NotSentToLookup(file[k])
    /\ \E j \in DOMAIN file : Patched[j] # file[j]

C4_CounterCountsEveryLookup ==
    pc # "dispatch" /\ BatchDone => pbar.n = Len(futures)

(***************************************************************************)
(* C5: a merge, a match evaluation or a fallback lookup is in progress     *)
(* only when the whole batch of search lookups has completed, and at most  *)
(* one fallback lookup is in flight.                                       *)
(***************************************************************************)
C5_MergeAfterBatch ==
    /\ pc \in {"merge", "updated", "fallback", "commit"} => BatchDone
    /\ doiInFlight > 0 => BatchDone
    /\ doiInFlight <= 1

\* a fallback lookup is in flight in a run that dispatched two lookups
C5_Witness == pc = "fallback" /\ doiInFlight = 1 /\ Len(futures) >= 2

(***************************************************************************)
(* C6: the entry assigned to the patched collection is the merge onto the  *)
(* entry as loaded of exactly one candidate: the search's candidate S when *)
(* its title is similar enough; the identifier lookup's candidate F when   *)
(* S is not and F is; S in every other case.                               *)
(***************************************************************************)
C6_MergeOfOneCandidate ==
    pc = "commit" =>
        LET orig == file[cur.key]
            S == cur.ref
            F == cur.fb_ref
            fixed == /\ BelowThreshold(similar(orig.fields["title"], S["title"][1]))
                     /\ F # None
                     /\ ~BelowThreshold(similar(orig.fields["title"], F[1]["title"][1]))
        IN  Written(cur.new_entry, dicts) = MergeOnto(IF fixed THEN F[1] ELSE S, orig)

(***************************************************************************)
(* C7: the merger does not mutate its input: after                         *)
(* update_entry_from_crossref(ref, entry) returns, the fields and the      *)
(* persons of entry are what they were before the call.                    *)
(***************************************************************************)
C7_MergerLeavesInputAlone ==
    [][pc' = "updated" \/ pc = "fallback"
          => Written(cur'.entry, dicts') = Written(cur'.entry, dicts)]_vars

(***************************************************************************)
(* C8: with a remote that answers the same question the same way, running  *)
(* the tool on the patched collection of a first run yields a patched      *)
(* collection equal to it.                                                 *)
(***************************************************************************)
C8_SecondRunIdempotent == run = 2 /\ pc = "done" => Patched = file

(***************************************************************************)
(* C9: the merger rebuilds the author list only if the candidate has at    *)
(* least as many authors as the entry: then the merged author list is the  *)
(* candidate's authors, one per author and in order; with fewer authors    *)
(* (so with none, against an entry that has some) or with no author field  *)
(* the persons are those of the entry.                                     *)
(***************************************************************************)
PersonsAsClaimed(ref, before, after) ==
    IF "author" \in DOMAIN ref /\ Len(ref["author"]) >= Len(Authors(before))
    THEN /\ Len(Authors(after)) = Len(ref["author"])
         /\ \A i \in 1..Len(ref["author"]) : Authors(after)[i] = AuthorPerson(ref["author"][i])
    ELSE after = before

C9_AuthorsRebuiltOnlyIfAsMany ==
    /\ pc = "updated" => PersonsAsClaimed(cur.ref, cur.entry.persons, cur.new_entry.persons)
    /\ pc = "commit" /\ cur.new_entry_fb # None
          => PersonsAsClaimed(cur.fb_ref[1], cur.entry.persons, cur.new_entry_fb[1].persons)

\* the identifier lookup's candidate had an empty author list, and merging
\* it left the entry's two authors
C9_Witness ==
    /\ pc = "commit"
    /\ cur.new_entry_fb # None
    /\ cur.fb_ref[1]["author"] = <<>>
    /\ Len(Authors(cur.entry.persons)) = 2
    /\ cur.new_entry_fb[1].persons = cur.entry.persons

(***************************************************************************)
(* C10: a low-similarity match is never an error: when the candidate       *)
(* scores below 0.75 (0 when it has no title or an empty title list) the   *)
(* loop warns, assigns the merged entry and goes on; fix_bibtex is not     *)
(* ended by an exception there.                                            *)
(***************************************************************************)
C10_LowSimilarityNeverError ==
    ~(pc = "crashed" /\ cur # <<>> /\ BelowThreshold(SimilarityOr0(cur.new_entry)))

====
